---- MODULE Spec2Model ----
(***************************************************************************)
(* Model of src/search.ts: search.search, searchInContent,                 *)
(* searchInBookmarks, filterAndSort and the helpers they call.             *)
(*                                                                         *)
(* One behaviour is one request.  Text that the code parses (the query,    *)
(* the replies and timeRange strings) is a sequence of one-character       *)
(* strings.  Null stands for JavaScript null/undefined; an id of 0 is      *)
(* falsy as in the code.  The stores, the index backends and the           *)
(* privilege engine are outside src/search.ts; their tables are the small  *)
(* fixed world below, and what they answer for a request (env) is drawn    *)
(* with the request in Init.                                               *)
(***************************************************************************)
EXTENDS Integers, Sequences, FiniteSets, TLC

\* ------------------------------------------------------------- bounds
\* longest id list the post index (or the per-container search) returns
MaxPostHits == 2
\* longest id list the topic index returns
MaxTopicHits == 2
\* batch size of the bookmark scan (500 in the code, scaled to the world)
BatchSize == 2

\* ---------------------------------------------------- program constants
DefaultItemsPerPage == 10
MaxItemsPerPage == 100

\* null / undefined of an id; NullRec is null / undefined of a record; NoCid
\* is null / undefined of a category id
Null == 0
NullRec == [isNull |-> TRUE]
NoCid == ""

\* ------------------------------------------------------- sequence helpers
Range(s) == {s[i] : i \in DOMAIN s}

Max2(a, b) == IF a >= b THEN a ELSE b
Min2(a, b) == IF a <= b THEN a ELSE b

RECURSIVE SeqsUpTo(_, _)
\* all sequences of distinct elements of S of length <= n
SeqsUpTo(S, n) ==
    IF n = 0 THEN {<<>>}
    ELSE LET shorter == SeqsUpTo(S, n - 1)
         IN  shorter \cup {Append(s, x) : s \in shorter, x \in S}

DistinctSeqs(S, n) ==
    {s \in SeqsUpTo(S, n) : \A i, j \in DOMAIN s : i # j => s[i] # s[j]}

\* lodash _.uniq: first occurrences, in order
Uniq(s) ==
    LET keep[i \in 0..Len(s)] ==
            IF i = 0 THEN <<>>
            ELSE IF s[i] \in Range(keep[i - 1]) THEN keep[i - 1]
                 ELSE Append(keep[i - 1], s[i])
    IN  keep[Len(s)]

\* lodash _.zipObject(keys, values): a later duplicate key overwrites an
\* earlier one; a key without a value maps to undefined
ZipObject(keys, values, undef) ==
    [k \in Range(keys) |->
        LET last == CHOOSE i \in DOMAIN keys :
                        keys[i] = k /\ \A j \in DOMAIN keys : keys[j] = k => j <= i
        IN  IF last \in DOMAIN values THEN values[last] ELSE undef]

\* obj[k], undefined when obj has no such key
Lookup(obj, k, undef) == IF k \in DOMAIN obj THEN obj[k] ELSE undef

\* Array.prototype.slice(start, end) with JavaScript's negative-index rule
JsSlice(s, start, end) ==
    LET n    == Len(s)
        from == IF start < 0 THEN Max2(n + start, 0) ELSE Min2(start, n)
        to   == IF end < 0 THEN Max2(n + end, 0) ELSE Min2(end, n)
    IN  IF from < to THEN SubSeq(s, from + 1, to) ELSE <<>>

\* Math.ceil(a / b) for integers, b # 0
CeilDiv(a, b) ==
    LET num == IF b < 0 THEN -a ELSE a
        den == IF b < 0 THEN -b ELSE b
    IN  IF num >= 0 THEN (num + den - 1) \div den ELSE -((-num) \div den)

\* ----------------------------------------------------------- text helpers
Digits == {"0", "1", "2", "3", "4", "5", "6", "7", "8", "9"}

DigitVal(c) ==
    CASE c = "0" -> 0 [] c = "1" -> 1 [] c = "2" -> 2 [] c = "3" -> 3
      [] c = "4" -> 4 [] c = "5" -> 5 [] c = "6" -> 6 [] c = "7" -> 7
      [] c = "8" -> 8 [] c = "9" -> 9

\* length of the longest run of digits starting at position from
DigitRun(s, from) ==
    LET run[i \in 0..Len(s)] ==
            IF from + i > Len(s) THEN i
            ELSE IF s[from + i] \in Digits /\ i < Len(s) THEN run[i + 1] ELSE i
    IN  IF from > Len(s) THEN 0 ELSE run[0]

StartsWith(s, p) == Len(s) >= Len(p) /\ SubSeq(s, 1, Len(p)) = p

\* String.prototype.includes
Includes(s, t) ==
    \E i \in 1..(Len(s) + 1) :
        i + Len(t) - 1 <= Len(s) /\ SubSeq(s, i, i + Len(t) - 1) = t

\* String.prototype.replace(pattern, '') with a string pattern: the first
\* occurrence is removed
RemoveFirst(s, t) ==
    IF ~Includes(s, t) THEN s
    ELSE LET at == CHOOSE i \in 1..(Len(s) + 1) :
                       /\ i + Len(t) - 1 <= Len(s)
                       /\ SubSeq(s, i, i + Len(t) - 1) = t
                       /\ \A j \in 1..(i - 1) : SubSeq(s, j, j + Len(t) - 1) # t
         IN  SubSeq(s, 1, at - 1) \o SubSeq(s, at + Len(t), Len(s))

\* String.prototype.split(' ')
SplitSpace(s) ==
    LET parts[i \in 0..Len(s)] ==
            IF i = 0 THEN <<<<>>>>
            ELSE LET prev == parts[i - 1]
                     n    == Len(prev)
                 IN  IF s[i] = " " THEN Append(prev, <<>>)
                     ELSE [prev EXCEPT ![n] = Append(prev[n], s[i])]
    IN  parts[Len(s)]

\* parseInt(text, 10) of a string without sign or leading blanks: the value
\* of the leading digits, NaN when there are none (also for undefined)
ParseInt(s) ==
    LET n == DigitRun(s, 1)
        val[i \in 0..n] == IF i = 0 THEN 0 ELSE 10 * val[i - 1] + DigitVal(s[i])
    IN  IF n = 0 THEN [nan |-> TRUE, v |-> 0] ELSE [nan |-> FALSE, v |-> val[n]]

\* character codes of the letters the world's strings use (UTF-16 order)
CharCode(c) ==
    CASE c = " " -> 32 [] c = "a" -> 97 [] c = "b" -> 98 [] c = "c" -> 99
      [] c = "h" -> 104 [] c = "i" -> 105 [] c = "t" -> 116 [] c = "x" -> 120
      [] c = "y" -> 121 [] OTHER -> 63

\* JavaScript's s < t on strings: lexicographic by code unit
StrLess(s, t) ==
    \E i \in 1..(Len(t)) :
        /\ \A j \in 1..(i - 1) : j <= Len(s) /\ s[j] = t[j]
        /\ \/ i = Len(s) + 1
           \/ i <= Len(s) /\ CharCode(s[i]) < CharCode(t[i])

\* ------------------------------------------------------------------ world
\* The stores behind posts, topics, user, categories and db.  Post 4 is
\* soft-deleted, topic 3 is soft-deleted, topic 4 has no record.
PostIds == 1..6
TopicIds == 1..4
HI == <<"h", "i">>
CAT == <<"c", "a", "t">>

PostRow(pid) ==
    CASE pid = 1 -> [pid |-> 1, uid |-> 1, tid |-> 1, timestamp |-> 10000,
                     deleted |-> FALSE, upvotes |-> 0, downvotes |-> 0]
      [] pid = 2 -> [pid |-> 2, uid |-> 2, tid |-> 1, timestamp |-> 30000,
                     deleted |-> FALSE, upvotes |-> 2, downvotes |-> 0]
      [] pid = 3 -> [pid |-> 3, uid |-> 3, tid |-> 2, timestamp |-> 30000,
                     deleted |-> FALSE, upvotes |-> 1, downvotes |-> 1]
      [] pid = 4 -> [pid |-> 4, uid |-> 2, tid |-> 2, timestamp |-> 40000,
                     deleted |-> TRUE, upvotes |-> 0, downvotes |-> 0]
      [] pid = 5 -> [pid |-> 5, uid |-> 3, tid |-> 3, timestamp |-> 20000,
                     deleted |-> FALSE, upvotes |-> 0, downvotes |-> 0]
      [] pid = 6 -> [pid |-> 6, uid |-> 1, tid |-> 4, timestamp |-> 45000,
                     deleted |-> FALSE, upvotes |-> 0, downvotes |-> 0]
      [] OTHER -> NullRec

PostContent(pid) ==
    CASE pid = 1 -> HI
      [] pid = 2 -> CAT
      [] pid = 3 -> HI \o <<" ">> \o CAT
      [] OTHER -> <<"x">>

TopicRow(tid) ==
    CASE tid = 1 -> [tid |-> 1, cid |-> "c1", mainPid |-> 1, deleted |-> FALSE,
                     postcount |-> 2, title |-> <<"a">>,
                     tags |-> <<[value |-> "a"], [value |-> "b"]>>,
                     category |-> NullRec]
      [] tid = 2 -> [tid |-> 2, cid |-> "c2", mainPid |-> 3, deleted |-> FALSE,
                     postcount |-> 5, title |-> CAT,
                     tags |-> <<[value |-> "a"]>>, category |-> NullRec]
      [] tid = 3 -> [tid |-> 3, cid |-> "c1", mainPid |-> 5, deleted |-> TRUE,
                     postcount |-> 1, title |-> HI, tags |-> <<>>,
                     category |-> NullRec]
      [] OTHER -> NullRec

\* user 1 is "b", user 2 is "a", user 3 is "ab"
Username(uid) ==
    CASE uid = 1 -> <<"b">> [] uid = 2 -> <<"a">> [] uid = 3 -> <<"a", "b">>
      [] OTHER -> <<>>

CategoryName(cid) ==
    CASE cid = "c1" -> <<"y">> [] cid = "c2" -> <<"x">> [] OTHER -> <<>>

\* the requester's bookmark set, in set order
Bookmarks(uid) == IF uid = 1 THEN <<6, 2, 4, 1, 3>> ELSE <<>>

\* Date.now()
Now == 50000

\* values a sort path resolves to
Num(n) == [k |-> "num", n |-> n, s |-> <<>>]
Str(s) == [k |-> "str", n |-> 0, s |-> s]
Undef == [k |-> "undef", n |-> 0, s |-> <<>>]

Truthy(v) ==
    CASE v.k = "num" -> v.n # 0 [] v.k = "str" -> v.s # <<>> [] OTHER -> FALSE

\* ------------------------------------------------- external collaborators
\* categories.getCidsByPrivilege('categories:cid', uid, 'read')
ReadableCids(uid) == <<"c1", "c2">>
\* user.getWatchedCategories(uid)
WatchedCids(uid) == IF uid = 1 THEN <<"c2">> ELSE <<>>
\* categories.getChildrenCids(cid)
ChildrenCids(cid) == IF cid = "c1" THEN <<"c2">> ELSE <<>>
\* privileges.categories.filterCids('find', cids, uid)
FilterFindable(cids, uid) == SelectSeq(cids, LAMBDA c : c = "c2")
\* user.getUidsByUsernames(names): unresolved names are omitted
UidsByUsernames(names) ==
    LET uidOf(n) == IF \E u \in 1..3 : Username(u) = n
                    THEN CHOOSE u \in 1..3 : Username(u) = n ELSE Null
    IN  SelectSeq([i \in DOMAIN names |-> uidOf(names[i])], LAMBDA u : u # Null)
\* the category a post lies in, through its topic
PostCid(pid) ==
    IF PostRow(pid) = NullRec \/ TopicRow(PostRow(pid).tid) = NullRec THEN NoCid
    ELSE TopicRow(PostRow(pid).tid).cid
\* posts.filterPidsByCid and posts.filterPidsByUid
FilterPidsByCid(pids, cids) == SelectSeq(pids, LAMBDA p : PostCid(p) \in Range(cids))
FilterPidsByUid(pids, uids) ==
    SelectSeq(pids, LAMBDA p : PostRow(p) # NullRec /\ PostRow(p).uid \in Range(uids))
\* topics.getMainPids(tids): aligned with tids, null for a missing topic
GetMainPids(tids) ==
    [i \in DOMAIN tids |->
        IF TopicRow(tids[i]) = NullRec THEN Null ELSE TopicRow(tids[i]).mainPid]
\* privileges.posts.filter('topics:read', pids, uid): an order-preserving
\* subsequence, the posts the requester may read
PrivilegesFilter(pids, readable) == SelectSeq(pids, LAMBDA p : p \in readable)
\* utils.isNumber
IsNumber(v) == v.k = "num"

\* ---------------------------------------------------------- sort paths
\* data.sortBy.split('.') on the sort paths of the model
Fields(sortBy) ==
    CASE sortBy = "timestamp" -> <<"timestamp">>
      [] sortBy = "topic.postcount" -> <<"topic", "postcount">>
      [] sortBy = "user.username" -> <<"user", "username">>
      [] sortBy = "category.name" -> <<"category", "name">>
      [] OTHER -> <<sortBy>>

\* ------------------------------------------------------ scope resolution
getWatchedCids(data) ==
    IF "watched" \notin Range(data.categories) THEN <<>> ELSE WatchedCids(data.uid)

RECURSIVE Flatten(_)
Flatten(ss) == IF ss = <<>> THEN <<>> ELSE Head(ss) \o Flatten(Tail(ss))

getChildrenCids(data) ==
    IF ~data.searchChildren THEN <<>>
    ELSE FilterFindable(
             Uniq(Flatten([i \in DOMAIN data.categories |->
                              ChildrenCids(data.categories[i])])),
             data.uid)

getSearchCids(data) ==
    IF data.categories = <<>> THEN <<>>
    ELSE IF "all" \in Range(data.categories) THEN ReadableCids(data.uid)
    ELSE Uniq(SelectSeq(getWatchedCids(data) \o getChildrenCids(data) \o data.categories,
                        LAMBDA c : c # NoCid))

\* postedBy is [isArray, names]; a lone name is wrapped, undefined and ''
\* are falsy
getSearchUids(data) ==
    IF ~data.postedBy.isArray /\ data.postedBy.names = <<>> THEN <<>>
    ELSE UidsByUsernames(data.postedBy.names)

\* ------------------------------------------------------ hydration
\* posts.getPostsFields(pids, postFields): one record per id; topic, user
\* and category are the enrichment slots filled by getMatchedPosts
HydratePost(pid) ==
    IF PostRow(pid) = NullRec THEN NullRec
    ELSE [pid |-> PostRow(pid).pid, uid |-> PostRow(pid).uid,
          tid |-> PostRow(pid).tid, timestamp |-> PostRow(pid).timestamp,
          deleted |-> PostRow(pid).deleted, upvotes |-> PostRow(pid).upvotes,
          downvotes |-> PostRow(pid).downvotes,
          topic |-> NullRec, user |-> NullRec, category |-> NullRec]

getUsers(uids, data) ==
    IF Fields(data.sortBy)[1] = "user"
    THEN [i \in DOMAIN uids |-> [username |-> Str(Username(uids[i]))]]
    ELSE <<>>

\* null when the sort path names no category attribute, else one row per
\* cid holding the attribute named
getCategories(cids, data) ==
    LET fields == Fields(data.sortBy)
        row(cid) == [f \in {fields[2]} |->
                        IF f = "name" /\ CategoryName(cid) # <<>>
                        THEN Str(CategoryName(cid)) ELSE Undef]
    IN  IF Len(fields) >= 2 /\ fields[1] = "category"
        THEN [isNull |-> FALSE, rows |-> [i \in DOMAIN cids |-> row(cids[i])]]
        ELSE [isNull |-> TRUE, rows |-> <<>>]

getTopics(tids, data) ==
    LET topicsData == [i \in DOMAIN tids |-> TopicRow(tids[i])]
        cids == Uniq([i \in DOMAIN topicsData |->
                        IF topicsData[i] = NullRec THEN NoCid ELSE topicsData[i].cid])
        categories == getCategories(cids, data)
        cidToCategory == ZipObject(cids, categories.rows, NullRec)
        enrich(topic) ==
            IF topic = NullRec THEN NullRec
            ELSE [topic EXCEPT
                    !.category = IF ~categories.isNull
                                 THEN Lookup(cidToCategory, topic.cid, NullRec)
                                 ELSE NullRec,
                    !.tags = [j \in DOMAIN topic.tags |-> topic.tags[j].value]]
    IN  [i \in DOMAIN topicsData |-> enrich(topicsData[i])]

getMatchedPosts(pids, data) ==
    LET fetched == [i \in DOMAIN pids |-> HydratePost(pids[i])]
        postsData == SelectSeq(fetched, LAMBDA post : post # NullRec /\ ~post.deleted)
        uids == Uniq([i \in DOMAIN postsData |-> postsData[i].uid])
        tids == Uniq([i \in DOMAIN postsData |-> postsData[i].tid])
        users == getUsers(uids, data)
        topics == getTopics(tids, data)
        tidToTopic == ZipObject(tids, topics, NullRec)
        uidToUser == ZipObject(uids, users, NullRec)
        enrich(post) ==
            LET topic == Lookup(tidToTopic, post.tid, NullRec)
            IN  [post EXCEPT
                    !.topic = topic,
                    !.category = IF topic # NullRec THEN topic.category ELSE NullRec,
                    !.user = Lookup(uidToUser, post.uid, NullRec)]
        enriched == [i \in DOMAIN postsData |-> enrich(postsData[i])]
    IN  SelectSeq(enriched, LAMBDA post : post.topic # NullRec /\ ~post.topic.deleted)

\* the fetches getMatchedPosts and its helpers issue
HydrationCalls(data) ==
    {"posts.getPostsFields", "topics.getTopicsData"}
        \cup (IF Fields(data.sortBy)[1] = "user" THEN {"user.getUsersFields"} ELSE {})
        \cup (IF ~getCategories(<<>>, data).isNull THEN {"db.getObjectsFields"} ELSE {})

\* ---------------------------------------------------------------- filters
filterByPostcount(posts, postCount, repliesFilter) ==
    LET parsedPostCount == ParseInt(postCount)
        atleast(post) == ~parsedPostCount.nan /\ post.topic.postcount >= parsedPostCount.v
        atmost(post) == ~parsedPostCount.nan /\ post.topic.postcount <= parsedPostCount.v
    IN  IF postCount # <<>>
        THEN IF repliesFilter = "atleast" THEN SelectSeq(posts, atleast)
             ELSE SelectSeq(posts, atmost)
        ELSE posts

filterByTimerange(posts, timeRange, timeFilter) ==
    LET parsed == ParseInt(timeRange)
        time == Now - parsed.v * 1000
        newer(post) == ~parsed.nan /\ post.timestamp >= time
        older(post) == ~parsed.nan /\ post.timestamp <= time
    IN  IF timeRange # <<>>
        THEN IF timeFilter = "newer" THEN SelectSeq(posts, newer)
             ELSE SelectSeq(posts, older)
        ELSE posts

\* hasTags is [set, tags]: set is false for undefined
filterByTags(posts, hasTags) ==
    LET hasAllTags(post) ==
            /\ post.topic # NullRec
            /\ post.topic.tags # <<>>
            /\ \A i \in DOMAIN hasTags.tags : hasTags.tags[i] \in Range(post.topic.tags)
    IN  IF hasTags.set /\ hasTags.tags # <<>> THEN SelectSeq(posts, hasAllTags) ELSE posts

\* ------------------------------------------------------------------- sort
\* post[fields[0]] and post[fields[0]][fields[1]]
FieldVal(post, fields) ==
    IF Len(fields) = 1
    THEN IF fields[1] \in {"pid", "uid", "tid", "timestamp", "upvotes", "downvotes"}
         THEN Num(post[fields[1]]) ELSE Undef
    ELSE IF fields[1] \notin {"topic", "user", "category"} THEN Undef
    ELSE LET sub == post[fields[1]]
         IN  IF sub = NullRec THEN Undef
             ELSE IF fields[1] = "topic"
                  THEN (IF fields[2] = "postcount" THEN Num(sub.postcount) ELSE Undef)
                  ELSE Lookup(sub, fields[2], Undef)

\* direction * (b - a); NaN when a value is missing
compareNumeric(a, b, direction) ==
    IF a.k = "num" /\ b.k = "num" THEN direction * (b.n - a.n) ELSE 0

\* the three-way comparison of lines 316-323
compareOther(a, b, direction) ==
    IF a.k = "str" /\ b.k = "str" /\ StrLess(b.s, a.s) THEN direction
    ELSE IF a.k = "str" /\ b.k = "str" /\ StrLess(a.s, b.s) THEN -direction
    ELSE 0

\* the comparator sortPosts hands to sort: numeric at lines 302 and 314,
\* three-way at lines 316-323
comparator(numeric, post_1, post_2, fields, direction) ==
    IF numeric
    THEN compareNumeric(FieldVal(post_1, fields), FieldVal(post_2, fields), direction)
    ELSE compareOther(FieldVal(post_1, fields), FieldVal(post_2, fields), direction)

\* Array.prototype.sort: stable; each element goes behind the last one that
\* does not compare greater
JsSort(s, numeric, fields, direction) ==
    LET insert(sorted, x) ==
            LET behind == {i \in DOMAIN sorted :
                              comparator(numeric, sorted[i], x, fields, direction) <= 0}
                at == IF behind = {} THEN 0
                      ELSE CHOOSE i \in behind : \A j \in behind : j <= i
            IN  SubSeq(sorted, 1, at) \o <<x>> \o SubSeq(sorted, at + 1, Len(sorted))
        done[i \in 0..Len(s)] == IF i = 0 THEN <<>> ELSE insert(done[i - 1], s[i])
    IN  done[Len(s)]

\* the direction sortPosts writes back into data
SortDirection(posts, data) ==
    IF posts = <<>> \/ data.sortBy = "relevance" THEN data.sortDirection
    ELSE IF data.sortDirection = "" THEN "desc" ELSE data.sortDirection

sortPosts(posts, data) ==
    LET direction == IF SortDirection(posts, data) = "desc" THEN 1 ELSE -1
        fields == Fields(data.sortBy)
        firstPost == posts[1]
        isValid == Len(fields) = 2 /\ Truthy(FieldVal(firstPost, fields))
        isNumeric == IsNumber(FieldVal(firstPost, fields))
    IN  IF posts = <<>> \/ data.sortBy = "relevance" THEN posts
        ELSE IF Len(fields) = 1 THEN JsSort(posts, TRUE, fields, direction)
        ELSE IF ~isValid THEN posts
        ELSE IF isNumeric THEN JsSort(posts, TRUE, fields, direction)
        ELSE JsSort(posts, FALSE, fields, direction)

\* --------------------------------------------------------- filterAndSort
\* plugins.hooks.hasListeners('filter:search.filterAndSort')
hasListeners(listener) == listener # "none"

\* plugins.hooks.fire('filter:search.filterAndSort', {pids, posts, data}):
\* the registered extension may replace the list; without one it is returned
\* as given
FireFilterAndSort(listener, posts) ==
    IF listener = "reverse" THEN [i \in DOMAIN posts |-> posts[Len(posts) + 1 - i]]
    ELSE posts

\* FastPath with the listener test inverted
FastPathListenerInverted(data, listener) ==
    /\ data.sortBy = "relevance"
    /\ data.replies = <<>>
    /\ data.timeRange = <<>>
    /\ ~data.hasTags.set
    /\ data.searchIn # "bookmarks"
    /\ hasListeners(listener)

FastPath(data, listener) ==
    /\ data.sortBy = "relevance"
    /\ data.replies = <<>>
    /\ data.timeRange = <<>>
    /\ ~data.hasTags.set
    /\ data.searchIn # "bookmarks"
    /\ ~hasListeners(listener)

\* lines 172-176: the posts left by the three filters
FilteredPosts(posts, data) ==
    filterByTags(
        filterByTimerange(
            filterByPostcount(posts, data.replies, data.repliesFilter),
            data.timeRange, data.timeFilter),
        data.hasTags)

\* lines 172-178: the posts filterAndSort hands to the extension point
FilterPipeline(posts, data) == sortPosts(FilteredPosts(posts, data), data)

\* ------------------------------------------------------------ in:topic
InTopicPrefix == <<"i", "n", ":", "t", "o", "p", "i", "c", "-">>

\* `${query}`.match(/^in:topic-([\d]+) /): [matched, all: inTopic[0],
\* tid: inTopic[1]]
InTopicMatch(query) ==
    LET n == DigitRun(query, Len(InTopicPrefix) + 1)
        end == Len(InTopicPrefix) + n + 1
    IN  IF /\ StartsWith(query, InTopicPrefix)
           /\ n >= 1
           /\ end <= Len(query)
           /\ query[end] = " "
        THEN [matched |-> TRUE, all |-> SubSeq(query, 1, end),
              tid |-> SubSeq(query, Len(InTopicPrefix) + 1, end - 1)]
        ELSE [matched |-> FALSE, all |-> <<>>, tid |-> <<>>]

\* CleanedTerm with the token left in the text
CleanedTermKept(query) == query

\* data.query.replace(inTopic[0], '')
CleanedTerm(query) == RemoveFirst(query, InTopicMatch(query).all)

\* ------------------------------------------------------------ bookmarks
\* the token test of lines 136-149 on one batch: [failed, pids]; failed
\* when a title or a content to search is null
MatchTokens(pids, data) ==
    LET tokens == SplitSpace(data.query)
        tids == Uniq([i \in DOMAIN pids |-> PostRow(pids[i]).tid])
        topicData == [i \in DOMAIN tids |-> TopicRow(tids[i])]
        tidToTopic == ZipObject(tids, topicData, NullRec)
        hit(pid, token) ==
            \/ Includes(PostContent(pid), token)
            \/ Includes(Lookup(tidToTopic, PostRow(pid).tid, NullRec).title, token)
        keep(pid) ==
            IF data.matchWords = "any"
            THEN \E i \in DOMAIN tokens : hit(pid, tokens[i])
            ELSE \A i \in DOMAIN tokens : hit(pid, tokens[i])
    IN  IF \E i \in DOMAIN pids :
               Lookup(tidToTopic, PostRow(pids[i]).tid, NullRec) = NullRec
        THEN [failed |-> TRUE, pids |-> <<>>]
        ELSE [failed |-> FALSE, pids |-> SelectSeq(pids, keep)]

\* the callback of batch.processSortedSet on one batch (lines 127-151)
BookmarkBatchKeep(batch, data, searchCids, searchUids) ==
    LET byCid == IF searchCids # <<>> THEN FilterPidsByCid(batch, searchCids) ELSE batch
        byUid == IF searchUids # <<>> THEN FilterPidsByUid(byCid, searchUids) ELSE byCid
    IN  IF data.query # <<>> THEN MatchTokens(byUid, data)
        ELSE [failed |-> FALSE, pids |-> byUid]

\* Accumulate with the batch put in front
AccumulateInFront(allPids, pids) == pids \o allPids

\* allPids.push(...pids)
Accumulate(allPids, pids) == allPids \o pids

\* ------------------------------------------------------- merge, assemble
\* Merge with the post ids put first
MergePostsFirst(mainPids, pids) == SelectSeq(pids \o mainPids, LAMBDA p : p # Null)

\* mainPids.concat(pids).filter(Boolean)
Merge(mainPids, pids) == SelectSeq(mainPids \o pids, LAMBDA p : p # Null)

\* Math.min(data.itemsPerPage || 10, 100)
ItemsPerPage(data) ==
    Min2(IF data.itemsPerPage = 0 THEN DefaultItemsPerPage ELSE data.itemsPerPage,
         MaxItemsPerPage)

\* Math.max(1, Math.ceil(length / itemsPerPage))
PageCount(length, itemsPerPage) == Max2(1, CeilDiv(length, itemsPerPage))

\* lines 112-115: the ids handed to posts.getPostSummaryByPids
PageSlice(pids, data) ==
    LET itemsPerPage == ItemsPerPage(data)
        start == Max2(0, data.page - 1) * itemsPerPage
    IN  IF data.page # 0 THEN JsSlice(pids, start, start + itemsPerPage) ELSE pids

\* lines 96-101
ReturnPids(allPids, pids) == SelectSeq(allPids, LAMBDA pid : pid \in Range(pids))

\* ReturnTids with the falsy main ids dropped before the pairing
ReturnTidsShifted(allPids, mainPids, tids) ==
    LET mainPidToTid == ZipObject(SelectSeq(mainPids, LAMBDA p : p # Null), tids, Null)
        hits == SelectSeq(allPids, LAMBDA pid : pid \in Range(mainPids))
    IN  [i \in DOMAIN hits |-> mainPidToTid[hits[i]]]

ReturnTids(allPids, mainPids, tids) ==
    LET mainPidToTid == ZipObject(mainPids, tids, Null)
        hits == SelectSeq(allPids, LAMBDA pid : pid \in Range(mainPids))
    IN  [i \in DOMAIN hits |-> mainPidToTid[hits[i]]]

\* ------------------------------------------------------------ requests
ContentDomains == {"posts", "titles", "titlesposts", "bookmarks"}
BuiltinDomains == ContentDomains \cup {"users", "categories", "tags"}
Domains == BuiltinDomains \cup {"custom", ""}

IN42 == InTopicPrefix \o <<"4", "2", " ">>
Queries ==
    { <<>>, HI, HI \o <<" ">> \o CAT,
      IN42 \o HI,
      IN42,
      InTopicPrefix \o <<"4", "2">>,
      InTopicPrefix \o <<" ">> \o HI,
      InTopicPrefix \o <<"4", "x", " ">> \o HI,
      <<"x", " ">> \o IN42 \o HI,
      InTopicPrefix \o <<"7", " ">> \o InTopicPrefix \o <<"7", " ">> \o HI }

PostHits == DistinctSeqs(PostIds, MaxPostHits)
TopicHits == DistinctSeqs(TopicIds, MaxTopicHits)

NoTags == [set |-> FALSE, tags |-> <<>>]
NoPostedBy == [isArray |-> FALSE, names |-> <<>>]

Data0 ==
    [searchIn |-> "posts", query |-> HI, matchWords |-> "", uid |-> 0,
     categories |-> <<>>, searchChildren |-> FALSE, postedBy |-> NoPostedBy,
     sortBy |-> "", sortDirection |-> "",
     replies |-> <<>>, repliesFilter |-> "", timeRange |-> <<>>, timeFilter |-> "",
     hasTags |-> NoTags, page |-> 0, itemsPerPage |-> 0, returnIds |-> FALSE]

\* what the collaborators hold for this request: the posts the requester may
\* read, the registered extensions, and the answers of the index backends
Env0 ==
    [readable |-> PostIds, listener |-> "none", handler |-> FALSE,
     postIndex |-> <<2, 4>>, topicIndex |-> <<2, 4>>, topicSearch |-> <<2, 1>>]

DomainRequests ==
    {[data |-> [Data0 EXCEPT !.searchIn = d, !.query = q, !.uid = 1],
      env |-> [Env0 EXCEPT !.handler = h]] :
        d \in Domains, q \in Queries, h \in BOOLEAN}

MergeRequests ==
    {[data |-> [Data0 EXCEPT !.searchIn = "titlesposts", !.returnIds = m[1],
                             !.sortBy = m[2]],
      env |-> [Env0 EXCEPT !.postIndex = p, !.topicIndex = t]] :
        p \in PostHits, t \in TopicHits,
        m \in {<<FALSE, "">>, <<TRUE, "">>, <<TRUE, "timestamp">>}}

ReadableRequests ==
    {[data |-> [Data0 EXCEPT !.searchIn = d, !.returnIds = r, !.replies = c],
      env |-> [Env0 EXCEPT !.topicIndex = t, !.readable = PostIds \ x]] :
        d \in {"titles", "titlesposts"}, r \in BOOLEAN, t \in TopicHits,
        x \in {{}, {3}, {1, 2}}, c \in {<<>>, <<"2">>}}

FilterRequests ==
    {[data |-> [Data0 EXCEPT !.replies = r[1], !.repliesFilter = r[2],
                             !.timeRange = t[1], !.timeFilter = t[2],
                             !.hasTags = g, !.sortBy = "relevance"],
      env |-> [Env0 EXCEPT !.postIndex = p]] :
        p \in PostHits,
        r \in {<<<<>>, "">>, <<<<"2">>, "">>, <<<<"2">>, "atleast">>,
               <<<<"x">>, "atleast">>, <<<<"0">>, "atmost">>},
        t \in {<<<<>>, "">>, <<<<"2", "5">>, "newer">>, <<<<"2", "5">>, "older">>},
        g \in {NoTags, [set |-> TRUE, tags |-> <<>>], [set |-> TRUE, tags |-> <<"a">>],
               [set |-> TRUE, tags |-> <<"a", "b">>]}}

SortRequests ==
    {[data |-> [Data0 EXCEPT !.sortBy = s, !.sortDirection = d],
      env |-> [Env0 EXCEPT !.postIndex = p, !.listener = l]] :
        p \in PostHits,
        s \in {"", "relevance", "timestamp", "topic.postcount", "user.username",
               "category.name"},
        d \in {"", "asc", "desc"}, l \in {"none", "reverse"}}

PageRequests ==
    {[data |-> [Data0 EXCEPT !.searchIn = d, !.query = <<>>, !.uid = 1,
                             !.page = g, !.itemsPerPage = n],
      env |-> [Env0 EXCEPT !.postIndex = <<1, 2, 3>>]] :
        d \in {"bookmarks", "posts"}, g \in 0..3, n \in {0, -2, 1, 2, 100, 500}}

BookmarkRequests ==
    {[data |-> [Data0 EXCEPT !.searchIn = "bookmarks", !.uid = u, !.query = q,
                             !.matchWords = w, !.categories = c,
                             !.searchChildren = k, !.postedBy = b],
      env |-> Env0] :
        u \in {0, 1}, q \in {<<>>, HI, HI \o <<" ">> \o CAT}, w \in {"", "any"},
        c \in {<<>>, <<"all">>, <<"c1">>, <<"watched", "c1">>}, k \in BOOLEAN,
        b \in {NoPostedBy, [isArray |-> FALSE, names |-> <<<<"b">>>>],
               [isArray |-> TRUE, names |-> <<<<"a">>, <<"x">>>>]}}

InTopicRequests ==
    {[data |-> [Data0 EXCEPT !.searchIn = d, !.query = IN42 \o HI],
      env |-> [Env0 EXCEPT !.topicSearch = p]] :
        d \in ContentDomains, p \in PostHits}

Requests ==
    DomainRequests \cup MergeRequests \cup ReadableRequests \cup FilterRequests
        \cup SortRequests \cup PageRequests \cup BookmarkRequests \cup InTopicRequests

\* ------------------------------------------------------------------ state
VARIABLES
    pc,          \* where the request stands
    data,        \* the ISearchData object, defaults filled in as the code does
    env,         \* the collaborators' side of the request (never written)
    searchCids,  \* searchInContent: resolved category scope
    searchUids,  \* searchInContent: resolved author scope
    pids,        \* searchInContent: direct post ids
    tids,        \* searchInContent: topic ids
    pending,     \* the doSearch promises of the Promise.all not yet settled
    cursor,      \* bookmarks read so far by batch.processSortedSet
    mainPids,    \* searchInContent: topics.getMainPids(tids)
    candidates,  \* allPids after privileges.posts.filter
    allPids,     \* allPids after filterAndSort
    postsData,   \* filterAndSort: the hydrated posts
    fs,          \* what filterAndSort did: fetches issued, posts, return taken
    calls,       \* the calls made to the collaborators, in order
    result       \* what search.search returned or threw

vars == <<pc, data, env, searchCids, searchUids, pids, tids, pending, cursor,
          mainPids, candidates, allPids, postsData, fs, calls, result>>

Call(op, a, b) == [op |-> op, a |-> a, b |-> b]

Init ==
    /\ \E rq \in Requests : data = rq.data /\ env = rq.env
    /\ pc = "search"
    /\ searchCids = <<>>
    /\ searchUids = <<>>
    /\ pids = <<>>
    /\ tids = <<>>
    /\ pending = {}
    /\ cursor = 0
    /\ mainPids = <<>>
    /\ candidates = <<>>
    /\ allPids = <<>>
    /\ postsData = <<>>
    /\ fs = [calls |-> {}, posts |-> <<>>, path |-> "none"]
    /\ calls = <<>>
    /\ result = [kind |-> "none"]

\* ---------------------------------------------------------- search.search
\* line 17: data.sortBy = data.sortBy || 'relevance'
WithSortBy(d) == [d EXCEPT !.sortBy = IF d.sortBy = "" THEN "relevance" ELSE d.sortBy]

\* plugins.hooks.fire('filter:search.searchIn', {data}): a registered handler
\* answers with its result; with none registered the payload comes back
FireSearchIn(handler) ==
    IF handler THEN [kind |-> "plugin", time |-> TRUE]
    ELSE [kind |-> "payload", time |-> TRUE]

\* lines 20-21
SearchContent ==
    /\ pc = "search"
    /\ data.searchIn \in ContentDomains
    /\ data' = WithSortBy(data)
    /\ pc' = "content"
    /\ UNCHANGED <<env, searchCids, searchUids, pids, tids, pending, cursor,
                   mainPids, candidates, allPids, postsData, fs, calls, result>>

\* lines 22-27, 36-37: user.search, categories.search, topics.searchAndLoadTags
SearchBuiltin ==
    /\ pc = "search"
    /\ data.searchIn \in {"users", "categories", "tags"}
    /\ data' = WithSortBy(data)
    /\ calls' = Append(calls, Call("search", data.searchIn, <<>>))
    /\ result' = [kind |-> data.searchIn, time |-> TRUE]
    /\ pc' = "done"
    /\ UNCHANGED <<env, searchCids, searchUids, pids, tids, pending, cursor,
                   mainPids, candidates, allPids, postsData, fs>>

\* lines 28-31, 36-37
SearchPlugin ==
    /\ pc = "search"
    /\ data.searchIn \notin BuiltinDomains
    /\ data.searchIn # ""
    /\ data' = WithSortBy(data)
    /\ calls' = Append(calls, Call("fire", "filter:search.searchIn", <<>>))
    /\ result' = FireSearchIn(env.handler)
    /\ pc' = "done"
    /\ UNCHANGED <<env, searchCids, searchUids, pids, tids, pending, cursor,
                   mainPids, candidates, allPids, postsData, fs>>

\* lines 32-34
SearchUnknown ==
    /\ pc = "search"
    /\ data.searchIn = ""
    /\ data' = WithSortBy(data)
    /\ result' = [kind |-> "error", error |-> "[[error:unknown-search-filter]]"]
    /\ pc' = "error"
    /\ UNCHANGED <<env, searchCids, searchUids, pids, tids, pending, cursor,
                   mainPids, candidates, allPids, postsData, fs, calls>>

\* ------------------------------------------------------- searchInContent
\* lines 42-47 (data.uid is 0 when absent)
ResolveScopes ==
    /\ pc = "content"
    /\ searchCids' = getSearchCids(data)
    /\ searchUids' = getSearchUids(data)
    /\ pc' = "dispatch"
    /\ UNCHANGED <<data, env, pids, tids, pending, cursor, mainPids, candidates,
                   allPids, postsData, fs, calls, result>>

\* lines 70-73
SearchInTopic ==
    /\ pc = "dispatch"
    /\ InTopicMatch(data.query).matched
    /\ calls' = Append(calls, Call("topics.search", InTopicMatch(data.query).tid,
                                   CleanedTerm(data.query)))
    /\ pids' = env.topicSearch
    /\ pc' = "merge"
    /\ UNCHANGED <<data, env, searchCids, searchUids, tids, pending, cursor,
                   mainPids, candidates, allPids, postsData, fs, result>>

\* lines 74-75, 124-127: the scan starts
ScanBookmarks ==
    /\ pc = "dispatch"
    /\ ~InTopicMatch(data.query).matched
    /\ data.searchIn = "bookmarks"
    /\ calls' = Append(calls, Call("batch.processSortedSet", data.uid, <<>>))
    /\ cursor' = 0
    /\ pc' = "bookmarks"
    /\ UNCHANGED <<data, env, searchCids, searchUids, pids, tids, pending,
                   mainPids, candidates, allPids, postsData, fs, result>>

\* lines 127-151: one batch through the callback
BookmarkBatch ==
    /\ pc = "bookmarks"
    /\ cursor < Len(Bookmarks(data.uid))
    /\ LET all == Bookmarks(data.uid)
           to == Min2(cursor + BatchSize, Len(all))
           kept == BookmarkBatchKeep(SubSeq(all, cursor + 1, to), data,
                                     searchCids, searchUids)
       IN  IF kept.failed
           THEN /\ pc' = "error"
                /\ result' = [kind |-> "error", error |-> "TypeError"]
                /\ UNCHANGED <<pids, cursor>>
           ELSE /\ pids' = Accumulate(pids, kept.pids)
                /\ cursor' = to
                /\ UNCHANGED <<pc, result>>
    /\ UNCHANGED <<data, env, searchCids, searchUids, tids, pending, mainPids,
                   candidates, allPids, postsData, fs, calls>>

\* lines 152-156: the set is exhausted
BookmarksDone ==
    /\ pc = "bookmarks"
    /\ cursor >= Len(Bookmarks(data.uid))
    /\ pc' = "merge"
    /\ UNCHANGED <<data, env, searchCids, searchUids, pids, tids, pending, cursor,
                   mainPids, candidates, allPids, postsData, fs, calls, result>>

\* lines 76-80: both doSearch calls are started
DispatchIndex ==
    /\ pc = "dispatch"
    /\ ~InTopicMatch(data.query).matched
    /\ data.searchIn # "bookmarks"
    /\ pending' = {"post", "topic"}
    /\ pc' = "index"
    /\ UNCHANGED <<data, env, searchCids, searchUids, pids, tids, cursor, mainPids,
                   candidates, allPids, postsData, fs, calls, result>>

\* the answer of a 'filter:search.query' listener: a plain id list or an
\* object that holds one
Answer(shape, hits) ==
    IF shape = "array" THEN [isArray |-> TRUE, array |-> hits]
    ELSE [isArray |-> FALSE, ids |-> hits]

\* line 60: Array.isArray(result) ? result : result.ids
ResultIds(answer) == IF answer.isArray THEN answer.array ELSE answer.ids

\* lines 49-63: doSearch(type, searchIn): [ids, calls: the query issued]
doSearch(type, searchIn, answer) ==
    IF data.searchIn \in searchIn
    THEN [ids |-> ResultIds(answer),
          calls |-> <<Call("filter:search.query", type, data.query)>>]
    ELSE [ids |-> <<>>, calls |-> <<>>]

\* line 77: the Promise.all resumes once both queries have settled
Settled == IF pending' = {} THEN "merge" ELSE "index"

\* doSearch('post', ['posts', 'titlesposts']) settles; its ids go to pids
PostQueryDone ==
    /\ pc = "index"
    /\ "post" \in pending
    /\ \E shape \in {"array", "object"} :
           LET r == doSearch("post", {"posts", "titlesposts"}, Answer(shape, env.postIndex))
           IN  /\ pids' = r.ids
               /\ calls' = calls \o r.calls
    /\ pending' = pending \ {"post"}
    /\ pc' = Settled
    /\ UNCHANGED <<data, env, searchCids, searchUids, tids, cursor, mainPids,
                   candidates, allPids, postsData, fs, result>>

\* doSearch('topic', ['titles', 'titlesposts']) settles; its ids go to tids
TopicQueryDone ==
    /\ pc = "index"
    /\ "topic" \in pending
    /\ \E shape \in {"array", "object"} :
           LET r == doSearch("topic", {"titles", "titlesposts"}, Answer(shape, env.topicIndex))
           IN  /\ tids' = r.ids
               /\ calls' = calls \o r.calls
    /\ pending' = pending \ {"topic"}
    /\ pc' = Settled
    /\ UNCHANGED <<data, env, searchCids, searchUids, pids, cursor, mainPids,
                   candidates, allPids, postsData, fs, result>>

\* lines 83-87
MergeAuthorize ==
    /\ pc = "merge"
    /\ mainPids' = GetMainPids(tids)
    /\ candidates' = PrivilegesFilter(Merge(GetMainPids(tids), pids), env.readable)
    /\ pc' = "filter"
    /\ UNCHANGED <<data, env, searchCids, searchUids, pids, tids, pending, cursor,
                   allPids, postsData, fs, calls, result>>

\* lines 160-167: the fast path of filterAndSort
FilterAndSortFast ==
    /\ pc = "filter"
    /\ FastPath(data, env.listener)
    /\ allPids' = candidates
    /\ fs' = [calls |-> {}, posts |-> <<>>, path |-> "fast"]
    /\ pc' = "assemble"
    /\ UNCHANGED <<data, env, searchCids, searchUids, pids, tids, pending, cursor,
                   mainPids, candidates, postsData, calls, result>>

\* lines 168-171: the candidates are hydrated; with nothing left the
\* candidate ids are returned
FilterAndSortHydrate ==
    /\ pc = "filter"
    /\ ~FastPath(data, env.listener)
    /\ postsData' = getMatchedPosts(candidates, data)
    /\ IF postsData' = <<>>
       THEN /\ allPids' = candidates
            /\ fs' = [calls |-> HydrationCalls(data), posts |-> <<>>, path |-> "empty"]
            /\ pc' = "assemble"
       ELSE /\ fs' = [calls |-> HydrationCalls(data), posts |-> <<>>, path |-> "hydrated"]
            /\ pc' = "sort"
            /\ UNCHANGED allPids
    /\ UNCHANGED <<data, env, searchCids, searchUids, pids, tids, pending, cursor,
                   mainPids, candidates, calls, result>>

\* lines 172-181: filters, sort, extension point
FilterAndSortReturn ==
    /\ pc = "sort"
    /\ LET posts == FilterPipeline(postsData, data)
           fired == FireFilterAndSort(env.listener, posts)
       IN  /\ allPids' = [i \in DOMAIN fired |-> fired[i].pid]
           /\ fs' = [calls |-> fs.calls, posts |-> [i \in DOMAIN posts |-> posts[i].pid],
                     path |-> "full"]
    /\ data' = [data EXCEPT !.sortDirection = SortDirection(FilteredPosts(postsData, data), data)]
    /\ postsData' = <<>>
    /\ pc' = "assemble"
    /\ UNCHANGED <<env, searchCids, searchUids, pids, tids, pending, cursor,
                   mainPids, candidates, calls, result>>

\* plugins.hooks.fire('filter:search.inContent', {pids, data}): no extension
\* is registered at this point in the model
FireInContent(ids) == ids

\* lines 90-102
ReturnIds ==
    /\ pc = "assemble"
    /\ data.returnIds
    /\ result' = [kind |-> "ids", pids |-> ReturnPids(allPids, pids),
                  tids |-> ReturnTids(allPids, mainPids, tids)]
    /\ pc' = "done"
    /\ UNCHANGED <<data, env, searchCids, searchUids, pids, tids, pending, cursor,
                   mainPids, candidates, allPids, postsData, fs, calls>>

\* lines 90-93, 104-121
Paginate ==
    /\ pc = "assemble"
    /\ ~data.returnIds
    /\ LET metadata == FireInContent(allPids)
           shown == PageSlice(metadata, data)
       IN  /\ result' = [kind |-> "page",
                         matchCount |-> Len(metadata),
                         pageCount |-> PageCount(Len(metadata), ItemsPerPage(data)),
                         itemsPerPage |-> ItemsPerPage(data),
                         posts |-> shown]
           /\ calls' = Append(calls, Call("posts.getPostSummaryByPids", shown, data.uid))
    /\ pc' = "done"
    /\ UNCHANGED <<data, env, searchCids, searchUids, pids, tids, pending, cursor,
                   mainPids, candidates, allPids, postsData, fs>>

Next ==
    \/ SearchContent
    \/ SearchBuiltin
    \/ SearchPlugin
    \/ SearchUnknown
    \/ ResolveScopes
    \/ SearchInTopic
    \/ ScanBookmarks
    \/ BookmarkBatch
    \/ BookmarksDone
    \/ DispatchIndex
    \/ PostQueryDone
    \/ TopicQueryDone
    \/ MergeAuthorize
    \/ FilterAndSortFast
    \/ FilterAndSortHydrate
    \/ FilterAndSortReturn
    \/ ReturnIds
    \/ Paginate

Spec == Init /\ [][Next]_vars

\* ----------------------------------------------------------------- claims
\* filterAndSort has returned
Filtered == fs.path \in {"fast", "empty", "full"}

\* searchInContent is past the dispatch of lines 70-81
Dispatched ==
    /\ data.searchIn \in ContentDomains
    /\ pc \in {"merge", "filter", "sort", "assemble", "done"}

RECURSIVE IsSubsequence(_, _)
IsSubsequence(a, b) ==
    IF a = <<>> THEN TRUE
    ELSE IF b = <<>> THEN FALSE
    ELSE IF Head(a) = Head(b) THEN IsSubsequence(Tail(a), Tail(b))
    ELSE IsSubsequence(a, Tail(b))

\* a post that is not soft-deleted and whose topic exists and is not
\* soft-deleted
Visible(pid) ==
    /\ PostRow(pid) # NullRec
    /\ ~PostRow(pid).deleted
    /\ TopicRow(PostRow(pid).tid) # NullRec
    /\ ~TopicRow(PostRow(pid).tid).deleted

\* C1: with sortBy 'relevance', no replies, timeRange or hasTags filter, a
\* domain other than 'bookmarks' and no filterAndSort extension,
\* filterAndSort returns the candidate list unchanged and issues no fetch.
C1_FastPathIdentity ==
    ( /\ Filtered
      /\ data.sortBy = "relevance"
      /\ data.replies = <<>>
      /\ data.timeRange = <<>>
      /\ ~data.hasTags.set
      /\ data.searchIn # "bookmarks"
      /\ env.listener = "none" )
    => (allPids = candidates /\ fs.calls = {})

\* the fast path was taken on a list that holds a soft-deleted post
C1_Witness ==
    /\ fs.path = "fast"
    /\ Len(candidates) >= 2
    /\ \E i \in DOMAIN candidates : ~Visible(candidates[i])
    /\ allPids = candidates

\* C2: off the fast path and with no extension, the output of filterAndSort
\* holds no soft-deleted id and no id whose container is missing or
\* soft-deleted.
C2_NoHiddenIdsReturned ==
    (Filtered /\ fs.path # "fast" /\ env.listener = "none")
    => \A i \in DOMAIN allPids : Visible(allPids[i])

\* C3: a domain that is no built-in and that no extension claims ends in a
\* hard error.
C3_UnknownDomainFails ==
    ( /\ pc \in {"done", "error"}
      /\ data.searchIn \notin BuiltinDomains
      /\ ~env.handler )
    => result.kind = "error"

\* the calls that search for candidates
SearchCalls ==
    SelectSeq(calls, LAMBDA c : c.op \in {"topics.search", "filter:search.query",
                                          "batch.processSortedSet"})

\* C4: a query 'in:topic-<digits> <text>' issues exactly one per-container
\* search, for <digits> and <text>, and neither an index query nor a
\* bookmark scan, whatever the domain.
C4_InTopicBypassesDispatch ==
    \A n \in 1..Len(data.query) :
        LET q == data.query
            p == Len(InTopicPrefix)
        IN  ( /\ Dispatched
              /\ Len(q) >= p + n + 1
              /\ SubSeq(q, 1, p) = InTopicPrefix
              /\ \A i \in (p + 1)..(p + n) : q[i] \in Digits
              /\ q[p + n + 1] = " " )
            => /\ Len(SearchCalls) = 1
               /\ SearchCalls[1].op = "topics.search"
               /\ SearchCalls[1].a = SubSeq(q, p + 1, p + n)
               /\ SearchCalls[1].b = SubSeq(q, p + n + 2, Len(q))

\* 'in:topic-42 hi' was searched in the bookmarks domain
C4_Witness ==
    /\ pc = "done"
    /\ data.searchIn = "bookmarks"
    /\ data.query = IN42 \o HI
    /\ result.kind = "page"

\* main-item ids in topic-index order, then post ids in post-index order,
\* falsy entries dropped
ExpectedMerge ==
    LET T == IF data.searchIn \in {"titles", "titlesposts"} THEN env.topicIndex ELSE <<>>
        P == IF data.searchIn \in {"posts", "titlesposts"} THEN env.postIndex ELSE <<>>
        M == [i \in DOMAIN T |->
                 IF TopicRow(T[i]) = NullRec THEN Null ELSE TopicRow(T[i]).mainPid]
    IN  SelectSeq(M \o P, LAMBDA x : x # Null)

GeneralDispatch ==
    /\ data.searchIn \in {"posts", "titles", "titlesposts"}
    /\ \A i \in DOMAIN calls : calls[i].op # "topics.search"

\* C5: the authorized candidate list is an order-preserving subsequence of
\* main-item ids (topic-index order) followed by post ids (post-index
\* order), whichever index query settles first; with sortBy 'relevance' and
\* no extension the filters keep that order too.
C5_OrderPreserved ==
    (GeneralDispatch /\ pc \in {"filter", "sort", "assemble", "done"})
    => /\ IsSubsequence(candidates, ExpectedMerge)
       /\ (Filtered /\ data.sortBy = "relevance" /\ env.listener = "none")
            => (IsSubsequence(allPids, candidates) /\ IsSubsequence(allPids, ExpectedMerge))

\* the post-index query settled before the topic-index query, authorization
\* removed a candidate and a filter pass removed another
C5_Witness ==
    /\ pc = "done"
    /\ GeneralDispatch
    /\ Len(calls) >= 2
    /\ calls[1].op = "filter:search.query" /\ calls[1].a = "post"
    /\ calls[2].op = "filter:search.query" /\ calls[2].a = "topic"
    /\ fs.path = "full"
    /\ data.sortBy = "relevance"
    /\ data.replies # <<>>
    /\ Len(allPids) >= 2
    /\ Len(allPids) < Len(candidates)
    /\ Len(candidates) < Len(ExpectedMerge)

\* C6: the effective page size lies in 1..100 for every requested
\* itemsPerPage.
C6_PageSizeClamped ==
    result.kind = "page" => result.itemsPerPage \in 1..100

\* the elements of s at the 0-based offsets lo <= o < hi, in order
AtOffsets(s, lo, hi) ==
    LET picked[i \in 0..Len(s)] ==
            IF i = 0 THEN <<>>
            ELSE IF lo <= i - 1 /\ i - 1 < hi THEN Append(picked[i - 1], s[i])
                 ELSE picked[i - 1]
    IN  picked[Len(s)]

\* C7: in paged mode with page p >= 1 and effective page size n, matchCount
\* is the length of the final id list, pageCount is max(1, ceil(matchCount/n))
\* and the ids hydrated are those at offsets [(p-1)*n, (p-1)*n + n).
C7_PageIsTheSlice ==
    (result.kind = "page" /\ data.page >= 1)
    => LET n == result.itemsPerPage
           m == Len(allPids)
           k == result.pageCount
       IN  /\ result.matchCount = m
           /\ k >= 1
           /\ (n > 0 => (k * n >= m /\ (k = 1 \/ (k - 1) * n < m)))
           /\ (n < 0 => k = 1)
           /\ result.posts = AtOffsets(allPids, (data.page - 1) * n, (data.page - 1) * n + n)

\* the container id paired with each main-item id of list, by position in
\* the topic-index answer
PairedWith(list, out) ==
    /\ Len(out) = Len(list)
    /\ \A k \in DOMAIN list :
           \E i \in DOMAIN tids :
               /\ TopicRow(tids[i]) # NullRec
               /\ TopicRow(tids[i]).mainPid = list[k]
               /\ out[k] = tids[i]

NoSummaryCall == \A i \in DOMAIN calls : calls[i].op # "posts.getPostSummaryByPids"

InScope(pid) ==
    /\ searchCids = <<>> \/ PostCid(pid) \in Range(searchCids)
    /\ searchUids = <<>> \/ PostRow(pid).uid \in Range(searchUids)

\* C9: in the bookmarks domain without text the scan returns exactly the
\* bookmarks that pass the non-empty scopes, in bookmark-set order, batch
\* after batch.
C9_BookmarksInSetOrder ==
    (data.searchIn = "bookmarks" /\ data.query = <<>>)
    => /\ pc = "bookmarks"
            => pids = SelectSeq(SubSeq(Bookmarks(data.uid), 1, cursor), InScope)
       /\ Dispatched => pids = SelectSeq(Bookmarks(data.uid), InScope)

\* a finished scan of several batches with both scopes set, which kept ids
\* of two batches and dropped others
C9_Witness ==
    /\ pc = "merge"
    /\ data.searchIn = "bookmarks"
    /\ data.query = <<>>
    /\ searchCids # <<>>
    /\ searchUids # <<>>
    /\ Len(Bookmarks(data.uid)) > 2 * BatchSize
    /\ pids = <<2, 4>>

\* the value the sort path names for a post
SortKey(pid, sortBy) ==
    CASE sortBy = "timestamp" -> Num(PostRow(pid).timestamp)
      [] sortBy = "topic.postcount" -> Num(TopicRow(PostRow(pid).tid).postcount)
      [] sortBy = "user.username" -> Str(Username(PostRow(pid).uid))
      [] sortBy = "category.name" -> Str(CategoryName(PostCid(pid)))
      [] OTHER -> Undef

KeyLess(a, b) == IF a.k = "num" THEN a.n < b.n ELSE StrLess(a.s, b.s)

IsPermutation(a, b) ==
    /\ Len(a) = Len(b)
    /\ \A x \in Range(a) \cup Range(b) :
           Cardinality({i \in DOMAIN a : a[i] = x}) = Cardinality({i \in DOMAIN b : b[i] = x})

\* C10: a sort other than 'relevance' leaves a permutation of the filtered
\* posts that is non-increasing by the sort key for 'desc' (the default) and
\* non-decreasing for 'asc', for numeric and for string keys.
C10_SortedByDirection ==
    (fs.path = "full" /\ data.sortBy # "relevance" /\ env.listener = "none")
    => /\ LET kept == FilteredPosts(getMatchedPosts(candidates, data), data)
          IN  IsPermutation(allPids, [i \in DOMAIN kept |-> kept[i].pid])
       /\ \A i, j \in DOMAIN allPids :
              i < j =>
                  LET ki == SortKey(allPids[i], data.sortBy)
                      kj == SortKey(allPids[j], data.sortBy)
                  IN  IF data.sortDirection = "asc" THEN ~KeyLess(kj, ki)
                      ELSE ~KeyLess(ki, kj)

====
